---- MODULE Spec2Model ----
(***************************************************************************)
(* Model of the PageSpeed collection pipeline:                             *)
(*   - CollectPageSpeedDataUseCase.execute / _get_all_urls / _process_url  *)
(*   - ExecutionSummary (add_success / add_failure / add_skipped)          *)
(*   - PageSpeedHTTPClient.fetch_metrics (bounded retry with backoff)      *)
(*   - PageSpeedAuthProvider.get_api_key                                   *)
(*   - the url_core_web_vitals table behind exists() / add()               *)
(* One execute run is modelled step by step; every collaborator outcome    *)
(* (return value or exception) is drawn nondeterministically.              *)
(***************************************************************************)
EXTENDS Integers, Sequences, FiniteSets, TLC

(***************************************************************************)
(* Bounds of the model.                                                    *)
(***************************************************************************)
MaxUrls == 2
MaxRetriesBound == 2

\* Largest number of audits and field metrics in one payload
MaxFields == 1

\* Values of initial_backoff and backoff_multiplier (whole seconds)
InitialBackoffs == {1, 3}

BackoffMultipliers == {2}

UrlIds == 1..MaxUrls

(***************************************************************************)
(* Exceptions.  Every exception value has the same shape:                  *)
(*   kind   - the Python class name                                        *)
(*   status - the status code of the attached response (0 when none)       *)
(*   resp   - what e.response is: "none" (None), "real" (a                 *)
(*            requests.Response) or "double" (a test double, e.g. Mock)    *)
(***************************************************************************)
Exc(kind, status, resp) == [kind |-> kind, status |-> status, resp |-> resp]

NoException == Exc("None", 0, "none")

RepositoryException == Exc("RepositoryException", 0, "none")

DuplicateRecordException == Exc("DuplicateRecordException", 0, "none")

ValueError == Exc("ValueError", 0, "none")

TimeoutExc == Exc("Timeout", 0, "none")

ConnectionError == Exc("ConnectionError", 0, "none")

\* raise RequestException(f"Failed to fetch data for {url}")
RequestException == Exc("RequestException", 0, "none")

\* Values a collaborator returns, in the shape of the exceptions so that one
\* log holds both
Returned(v) == Exc(v, 0, "none")

IsException(e) ==
    e.kind \in {"RepositoryException", "DuplicateRecordException", "ValueError",
                "Timeout", "ConnectionError", "RequestException", "HTTPError"}

\* except DuplicateRecordException (a subclass of RepositoryException)
IsDuplicateRecordException(e) == e.kind = "DuplicateRecordException"

\* except RepositoryException: the class itself or a subclass
IsRepositoryException(e) == e.kind \in {"RepositoryException", "DuplicateRecordException"}

(***************************************************************************)
(* HTTP responses.  raise_for_status raises HTTPError exactly when         *)
(* 400 <= status < 600; the error carries the response.                    *)
(***************************************************************************)
ErrorStatuses == {400, 404, 429, 500}

RespKinds == {"real", "double"}

\* HTTPError raised by raise_for_status (it carries the response), or raised
\* by the transport with no response at all
HTTPErrors ==
    {Exc("HTTPError", s, r) : s \in ErrorStatuses, r \in RespKinds}
        \cup {Exc("HTTPError", 0, "none")}

\* A 2xx response: raise_for_status returns and response.json() is the payload
Ok200 == Exc("OK", 200, "real")

\* Outcomes of one requests.get + raise_for_status + json
RequestOutcomes == {Ok200} \cup HTTPErrors \cup {TimeoutExc, ConnectionError}

\* bool(e.response): None is falsy, requests.Response.__bool__ is `ok`
\* (status < 400), a test double is truthy.
ResponseTruthy(e) ==
    CASE e.resp = "none" -> FALSE
      [] e.resp = "real" -> e.status < 400
      [] OTHER -> TRUE

\* status_code = None
StatusNone == 0

\* status_code = e.response.status_code if e.response else None
status_code_of(e) == IF ResponseTruthy(e) THEN e.status ELSE StatusNone

\* Mutant: the rate-limit status 429 is not exempted
IsClientErrorNoRetryWith429(status_code) ==
    /\ status_code # StatusNone
    /\ 400 <= status_code
    /\ status_code < 500

\* if status_code and 400 <= status_code < 500 and status_code != 429: raise
IsClientErrorNoRetry(status_code) ==
    /\ status_code # StatusNone
    /\ 400 <= status_code
    /\ status_code < 500
    /\ status_code # 429

(***************************************************************************)
(* ExecutionSummary                                                        *)
(***************************************************************************)
NoSummary == [none |-> TRUE]

\* ExecutionSummary(execution_date, total_urls)
ExecutionSummary(total_urls) ==
    [total_urls |-> total_urls, successful |-> 0, failed |-> 0, skipped |-> 0,
     results |-> <<>>]

\* URLExecutionResult(url_id, url, success, error_message)
URLExecutionResult(url_id, success, error_message) ==
    [url_id |-> url_id, success |-> success, error_message |-> error_message]

\* Mutant: the entry is appended but the counter is left alone
add_success_uncounted(s, url_id) ==
    [s EXCEPT !.results = Append(@, URLExecutionResult(url_id, TRUE, <<>>))]

add_success(s, url_id) ==
    [s EXCEPT !.successful = @ + 1,
              !.results = Append(@, URLExecutionResult(url_id, TRUE, <<>>))]

\* Mutant: the failure is counted but no entry is appended
add_failure_unlisted(s, url_id, error_message) == [s EXCEPT !.failed = @ + 1]

add_failure(s, url_id, error_message) ==
    [s EXCEPT !.failed = @ + 1,
              !.results = Append(@, URLExecutionResult(url_id, FALSE, error_message))]

\* Mutant: a skip also appends an entry to results
add_skipped_appending(s, url_id) ==
    [s EXCEPT !.skipped = @ + 1,
              !.results = Append(@, URLExecutionResult(url_id, TRUE, <<>>))]

add_skipped(s, url_id) == [s EXCEPT !.skipped = @ + 1]

\* error_msg = f"{type(e).__name__}: {str(e)}"
\* Mutant: error_msg = str(e), without the exception's type name
error_msg_message_only(e) == <<"", e.status>>

error_msg(e) == <<e.kind, e.status>>

IsFailedResult(r) == ~r.success

IsSuccessfulResult(r) == r.success

\* [r for r in self.results if not r.success]
get_failed_urls(s) == SelectSeq(s.results, IsFailedResult)

\* [r for r in self.results if r.success]
get_successful_urls(s) == SelectSeq(s.results, IsSuccessfulResult)

(***************************************************************************)
(* PageSpeedInsightsResponse and PageSpeedMapper.  A JSON object is a      *)
(* function from its keys, a number x is written as the integer 100 * x,   *)
(* and None (JSON null) as -1.                                             *)
(***************************************************************************)
None == -1

EmptyDict == [k \in {} |-> None]

\* None where the payload is expected to hold an object ("audits": null)
NoneObject == [NoneType |-> TRUE]

IsNone(d) == "NoneType" \in DOMAIN d

\* d.get(k, default)
Get(d, k, default) == IF k \in DOMAIN d THEN d[k] ELSE default

Merge(a, b) == [k \in DOMAIN a \cup DOMAIN b |-> IF k \in DOMAIN a THEN a[k] ELSE b[k]]

\* __init__
PageSpeedInsightsResponse(json_data) ==
    [field_metrics |-> Get(Get(json_data, "loadingExperience", EmptyDict), "metrics", EmptyDict),
     lab_metrics |-> Get(Get(json_data, "lighthouseResult", EmptyDict), "audits", EmptyDict),
     categories |-> Get(Get(json_data, "lighthouseResult", EmptyDict), "categories", EmptyDict)]

\* __init__ raises AttributeError: .get is called on the value of
\* 'loadingExperience' or 'lighthouseResult', which is None when the key is
\* present with null
init_raises(json_data) ==
    \/ IsNone(Get(json_data, "loadingExperience", EmptyDict))
    \/ IsNone(Get(json_data, "lighthouseResult", EmptyDict))

\* d.get(key, {}).get(...) raises AttributeError when d is None or d[key] is None
chain_raises(d, key) == IsNone(d) \/ IsNone(Get(d, key, EmptyDict))

\* one of the thirteen properties read by to_core_web_vitals raises
to_core_web_vitals_raises(response) ==
    \/ chain_raises(response.categories, "performance")
    \/ \E audit \in {"first-contentful-paint", "largest-contentful-paint",
                      "total-blocking-time", "cumulative-layout-shift", "speed-index",
                      "server-response-time", "interactive"} :
          chain_raises(response.lab_metrics, audit)
    \/ \E key \in {"LARGEST_CONTENTFUL_PAINT_MS", "INTERACTION_TO_NEXT_PAINT",
                    "CUMULATIVE_LAYOUT_SHIFT_SCORE", "FIRST_CONTENTFUL_PAINT_MS",
                    "EXPERIMENTAL_TIME_TO_FIRST_BYTE"} :
          chain_raises(response.field_metrics, key)

\* Mutant: a missing score is unknown, like every other metric
performance_score_unknown(response) ==
    LET score == Get(Get(response.categories, "performance", EmptyDict), "score", None)
    IN  IF score # None THEN score * 100 ELSE None

\* score * 100 if score is not None else 0.0
performance_score(response) ==
    LET score == Get(Get(response.categories, "performance", EmptyDict), "score", None)
    IN  IF score # None THEN score * 100 ELSE 0

\* Mutant: a missing audit value is coerced to 0
lab_metric_or_zero(response, audit) ==
    LET v == Get(Get(response.lab_metrics, audit, EmptyDict), "numericValue", None)
    IN  IF v = None THEN 0 ELSE v

\* self.lab_metrics.get(audit, {}).get('numericValue')
lab_metric(response, audit) ==
    Get(Get(response.lab_metrics, audit, EmptyDict), "numericValue", None)

\* self.field_metrics.get(key, {}).get('percentile')
field_metric(response, key) ==
    Get(Get(response.field_metrics, key, EmptyDict), "percentile", None)

\* PageSpeedMapper.to_core_web_vitals (execution_date is copied through)
to_core_web_vitals(url_id, response) ==
    [url_id |-> url_id,
     performance_score |-> performance_score(response),
     first_contentful_paint |-> lab_metric(response, "first-contentful-paint"),
     largest_contentful_paint |-> lab_metric(response, "largest-contentful-paint"),
     total_blocking_time |-> lab_metric(response, "total-blocking-time"),
     cumulative_layout_shift |-> lab_metric(response, "cumulative-layout-shift"),
     speed_index |-> lab_metric(response, "speed-index"),
     time_to_first_byte |-> lab_metric(response, "server-response-time"),
     time_to_interactive |-> lab_metric(response, "interactive"),
     crux_largest_contentful_paint |-> field_metric(response, "LARGEST_CONTENTFUL_PAINT_MS"),
     crux_interaction_to_next_paint |-> field_metric(response, "INTERACTION_TO_NEXT_PAINT"),
     crux_cumulative_layout_shift |-> field_metric(response, "CUMULATIVE_LAYOUT_SHIFT_SCORE"),
     crux_first_contentful_paint |-> field_metric(response, "FIRST_CONTENTFUL_PAINT_MS"),
     crux_time_to_first_byte |-> field_metric(response, "EXPERIMENTAL_TIME_TO_FIRST_BYTE")]

\* Payloads of the API: every section, object and value may be missing or
\* null, a value may also be zero or positive
LabAudits ==
    {"first-contentful-paint", "largest-contentful-paint", "total-blocking-time",
     "cumulative-layout-shift", "speed-index", "server-response-time", "interactive"}

CruxKeys ==
    {"LARGEST_CONTENTFUL_PAINT_MS", "INTERACTION_TO_NEXT_PAINT",
     "CUMULATIVE_LAYOUT_SHIFT_SCORE", "FIRST_CONTENTFUL_PAINT_MS",
     "EXPERIMENTAL_TIME_TO_FIRST_BYTE"}

\* numericValue and percentile: null, 0 and 7
MetricValues == {None, 0, 700}

\* score: null, 0, 0.5 and 1
ScoreValues == {None, 0, 50, 100}

Objects(key, values) == {EmptyDict} \cup {key :> v : v \in values}

OrNone(objects) == objects \cup {NoneObject}

DictsOver(keys, objects, n) ==
    UNION {[S -> objects] : S \in {T \in SUBSET keys : Cardinality(T) <= n}}

LighthouseResults(n) ==
    {Merge(a, c) :
        a \in Objects("audits",
                      OrNone(DictsOver(LabAudits,
                                       OrNone(Objects("numericValue", MetricValues)), n))),
        c \in Objects("categories",
                      OrNone(Objects("performance",
                                     OrNone(Objects("score", ScoreValues)))))}

LoadingExperiences(n) ==
    Objects("metrics",
            OrNone(DictsOver(CruxKeys, OrNone(Objects("percentile", MetricValues)), n)))

Payloads(n) ==
    UNION {{Merge(l, e) :
               l \in Objects("lighthouseResult", OrNone(LighthouseResults(i))),
               e \in Objects("loadingExperience",
                             OrNone(LoadingExperiences(n - i)))} :
           i \in 0..n}

NoRecord == [none |-> TRUE]

(***************************************************************************)
(* State                                                                   *)
(***************************************************************************)
VARIABLES
    job,                \* main of the collection job: "direct" (execute is called
                        \* without the job), "main", "execute", "exited"
    exit_code,          \* the argument of sys.exit, NoExit before it
    max_retries,        \* PageSpeedHTTPClient._max_retries
    initial_backoff,    \* PageSpeedHTTPClient._initial_backoff
    backoff_multiplier, \* PageSpeedHTTPClient._backoff_multiplier
    api_key,            \* PageSpeedAuthProvider._api_key
    catalog,            \* rows of the urls table, in get_all order
    store,              \* url ids with a url_core_web_vitals row for the date
    pc,                 \* execute: "start", "loop", "done", "raised"
    idx,                \* position of the for loop of execute in all_urls
    upc,                \* _process_url: "exists", "fetch", "store"
    summary,            \* the ExecutionSummary of the run
    raised,             \* the exception that left execute
    fpc,                \* fetch_metrics: "idle", "request", "backoff", "returned", "raised"
    attempt,            \* fetch_metrics: loop variable
    last_exception,     \* fetch_metrics: last_exception
    fetch_error,        \* the exception that left the last fetch_metrics call
    last_outcome,       \* outcome of the latest request of the current call
    requests,           \* HTTP requests issued by the current fetch_metrics call
    sleeps,             \* durations of the time.sleep calls of the current call
    params_key,         \* fetch_metrics: params['key'] of the call, NoKey outside a call
    calls,              \* log of collaborator calls <<operation, url_id>>, at call time
    returns,            \* log of their outcomes <<operation, url_id, value or exception>>
    mpc,                \* fetch_core_web_vitals after fetch_metrics: "off", "json", "dto",
                        \* "entity", "raised"
    json_data,          \* the payload fetch_metrics returned
    response,           \* the PageSpeedInsightsResponse built from it
    record              \* the CoreWebVitals entity the mapper returns

\* None: no key given and no PAGESPEED_INSIGHTS_API_KEY in the environment
NoKey == "<None>"

ApiKeys == {NoKey, "", "your_api_key_here", "key"}

\* Python truth value of an optional string
Falsy(k) == k \in {NoKey, ""}

\* __init__: self._api_key = api_key or os.getenv('PAGESPEED_INSIGHTS_API_KEY')
resolve_api_key(arg, env) == IF ~Falsy(arg) THEN arg ELSE env

config == <<max_retries, initial_backoff, backoff_multiplier, api_key>>

job_vars == <<job, exit_code>>

map_vars == <<mpc, json_data, response, record>>

NoExit == -1

\* _setup_container: the retry settings the job gives the HTTP client
JobMaxRetries == 3
JobInitialBackoff == 1
JobBackoffMultiplier == 2

fetch_vars == <<fpc, attempt, last_exception, fetch_error, last_outcome, requests, sleeps,
               params_key>>

\* The locals and observations of a fetch_metrics call are gone once
\* _process_url has moved on
FetchIdle ==
    /\ fpc' = "idle"
    /\ attempt' = 0
    /\ last_exception' = NoException
    /\ fetch_error' = NoException
    /\ last_outcome' = NoException
    /\ requests' = 0
    /\ sleeps' = <<>>
    /\ params_key' = NoKey

vars == <<job, exit_code, max_retries, initial_backoff, backoff_multiplier, api_key, catalog, store,
          pc, idx, upc, summary, raised, fpc, attempt, last_exception, fetch_error,
          last_outcome, requests, sleeps, params_key, calls, returns, mpc, json_data,
          response, record>>

\* get_all: SELECT ... ORDER BY url_id, so a catalog is a strictly increasing
\* sequence of url ids
Catalogs ==
    UNION {{c \in [1..n -> UrlIds] : \A i, j \in 1..n : i < j => c[i] < c[j]} : n \in 0..MaxUrls}

Range(f) == {f[i] : i \in DOMAIN f}

Init ==
    /\ job \in {"direct", "main"}
    /\ exit_code = NoExit
    /\ IF job = "main"
       THEN /\ max_retries = JobMaxRetries
            /\ initial_backoff = JobInitialBackoff
            /\ backoff_multiplier = JobBackoffMultiplier
       ELSE /\ max_retries \in 0..MaxRetriesBound
            /\ initial_backoff \in InitialBackoffs
            /\ backoff_multiplier \in BackoffMultipliers
    /\ \E arg \in ApiKeys, env \in ApiKeys : api_key = resolve_api_key(arg, env)
    /\ catalog \in Catalogs
    /\ store \in SUBSET Range(catalog)
    /\ pc = "start"
    /\ idx = 0
    /\ upc = "exists"
    /\ summary = NoSummary
    /\ raised = NoException
    /\ fpc = "idle"
    /\ attempt = 0
    /\ last_exception = NoException
    /\ fetch_error = NoException
    /\ last_outcome = NoException
    /\ requests = 0
    /\ sleeps = <<>>
    /\ params_key = NoKey
    /\ calls = <<>>
    /\ returns = <<>>
    /\ mpc = "off"
    /\ json_data = EmptyDict
    /\ response = NoRecord
    /\ record = NoRecord

(***************************************************************************)
(* PageSpeedAuthProvider                                                   *)
(***************************************************************************)
\* Mutant: get_api_key returns whatever is configured, without a check
get_api_key_raises_never == FALSE

\* Mutant: the placeholder passes the check
get_api_key_raises_on_empty_only == Falsy(api_key)

\* if not self._api_key or self._api_key == 'your_api_key_here': raise ValueError
get_api_key_raises == Falsy(api_key) \/ api_key = "your_api_key_here"

\* return self._api_key
get_api_key == api_key

\* return bool(self._api_key and self._api_key != 'your_api_key_here')
is_configured == ~Falsy(api_key) /\ api_key # "your_api_key_here"

(***************************************************************************)
(* PageSpeedHTTPClient.fetch_metrics helpers                               *)
(***************************************************************************)
\* Mutant: range(self._max_retries), one attempt short
InAttemptRangeShort(a) == 0 <= a /\ a < max_retries

\* for attempt in range(self._max_retries + 1)
InAttemptRange(a) == 0 <= a /\ a < max_retries + 1

\* Mutant: the sleep follows the last attempt as well
NotLastAttemptOrLast(a) == a <= max_retries

\* if attempt < self._max_retries
NotLastAttempt(a) == a < max_retries

\* Mutant: the backoff is multiplied before the first sleep
wait_time_compounding(a) == initial_backoff * (backoff_multiplier ^ (a + 1))

\* wait_time = backoff * (self._backoff_multiplier ** attempt)
wait_time(a) == initial_backoff * (backoff_multiplier ^ a)

(***************************************************************************)
(* CollectPageSpeedDataUseCase helpers                                     *)
(***************************************************************************)
\* the url_entity of the current iteration
\* Mutant: the loop walks all_urls from its end
url_id_reversed == catalog[Len(catalog) + 1 - idx]

\* for url_id, url, device in all_urls
url_id == catalog[idx]

\* Mutant: the duplicate signal is swallowed without touching the summary
on_exception_swallowing(s, id, e) ==
    IF IsDuplicateRecordException(e)
    THEN s
    ELSE add_failure(s, id, error_msg(e))

\* Mutant: except Exception comes first, so the duplicate signal is a failure
on_exception_failing(s, id, e) == add_failure(s, id, error_msg(e))

\* Mutant: except RepositoryException in place of except
\* DuplicateRecordException, so every store error is a skip
on_exception_skipping_repository(s, id, e) ==
    IF IsRepositoryException(e)
    THEN add_skipped(s, id)
    ELSE add_failure(s, id, error_msg(e))

\* except DuplicateRecordException / except Exception, in this order
on_exception(s, id, e) ==
    IF IsDuplicateRecordException(e)
    THEN add_skipped(s, id)
    ELSE add_failure(s, id, error_msg(e))

\* Mutant: only repository errors are caught by _process_url
CaughtMutant(e) == IsRepositoryException(e)

\* try ... except Exception: every exception class of the model derives
\* from Exception
Caught(e) == IsException(e)

\* Mutant: a url that failed is processed again
NextUrlRepeatingFailed(s) ==
    /\ summary' = s
    /\ upc' = "exists"
    /\ idx' = IF s.failed > summary.failed THEN idx ELSE idx + 1
    /\ pc' = IF idx' <= Len(catalog) THEN "loop" ELSE "done"
    /\ UNCHANGED raised

\* _process_url returns with summary s; the for loop takes the next url or
\* execute returns the summary
NextUrl(s) ==
    /\ summary' = s
    /\ upc' = "exists"
    /\ idx' = idx + 1
    /\ pc' = IF idx + 1 <= Len(catalog) THEN "loop" ELSE "done"
    /\ UNCHANGED raised

\* operation op of _process_url raises e inside the try block
Raise(op, e) ==
    /\ returns' = Append(returns, <<op, url_id, e>>)
    /\ IF Caught(e)
       THEN NextUrl(on_exception(summary, url_id, e))
       ELSE /\ pc' = "raised"
            /\ raised' = e
            /\ UNCHANGED <<idx, upc, summary>>

(***************************************************************************)
(* The collection job: main                                                *)
(***************************************************************************)
\* _validate_prerequisites reads the environment variable the container
\* hands to the auth provider
validate_prerequisites == ~(Falsy(api_key) \/ api_key = "your_api_key_here")

\* Mutant: main goes on to the use case without the pre-flight check
JobMainUnchecked ==
    /\ job = "main"
    /\ job' = "execute"
    /\ UNCHANGED exit_code
    /\ UNCHANGED <<config, map_vars, catalog, store, pc, idx, upc, summary, raised,
                   fetch_vars, calls, returns>>

\* main up to the call of execute: sys.exit(1) when the pre-flight fails
JobMain ==
    /\ job = "main"
    /\ IF ~validate_prerequisites
       THEN /\ job' = "exited"
            /\ exit_code' = 1
       ELSE /\ job' = "execute"
            /\ UNCHANGED exit_code
    /\ UNCHANGED <<config, map_vars, catalog, store, pc, idx, upc, summary, raised,
                   fetch_vars, calls, returns>>

\* Mutant: a run with skipped urls is also reported as a failure
exit_status_strict(s) == IF s.failed = 0 /\ s.skipped = 0 THEN 0 ELSE 1

\* 0 if summary.failed == 0 else 1
exit_status(s) == IF s.failed = 0 THEN 0 ELSE 1

\* main after execute: sys.exit(0 if summary.failed == 0 else 1), and
\* sys.exit(1) in the except clause when execute raised
JobExit ==
    /\ job = "execute"
    /\ pc \in {"done", "raised"}
    /\ job' = "exited"
    /\ exit_code' = IF pc = "done" THEN exit_status(summary) ELSE 1
    /\ UNCHANGED <<config, map_vars, catalog, store, pc, idx, upc, summary, raised,
                   fetch_vars, calls, returns>>

(***************************************************************************)
(* execute, up to the for loop                                             *)
(***************************************************************************)
\* Mutant: _get_all_urls swallows the error and returns an empty list
GetAllFailsSwallowed ==
    /\ returns' = Append(returns, <<"get_all", 0, RepositoryException>>)
    /\ summary' = ExecutionSummary(0)
    /\ pc' = "done"
    /\ idx' = 1
    /\ UNCHANGED raised

\* _get_all_urls: get_all raises, the error is logged and re-raised, and
\* execute is left
GetAllFails ==
    /\ returns' = Append(returns, <<"get_all", 0, RepositoryException>>)
    /\ pc' = "raised"
    /\ raised' = RepositoryException
    /\ UNCHANGED <<idx, summary>>

\* Mutant: an empty catalog is an error of the run
GetAllReturnsRejectingEmpty ==
    /\ returns' = Append(returns, <<"get_all", 0, Returned("ok")>>)
    /\ idx' = 1
    /\ IF Len(catalog) = 0
       THEN /\ pc' = "raised"
            /\ raised' = ValueError
            /\ UNCHANGED summary
       ELSE /\ summary' = ExecutionSummary(Len(catalog))
            /\ pc' = "loop"
            /\ UNCHANGED raised

\* get_all returns the catalog: the summary is created and the for loop
\* runs over all_urls (not at all when it is empty)
GetAllReturns ==
    /\ returns' = Append(returns, <<"get_all", 0, Returned("ok")>>)
    /\ summary' = ExecutionSummary(Len(catalog))
    /\ pc' = IF Len(catalog) = 0 THEN "done" ELSE "loop"
    /\ idx' = 1
    /\ UNCHANGED raised

ExecuteStart ==
    /\ job \in {"direct", "execute"}
    /\ pc = "start"
    /\ calls' = Append(calls, <<"get_all", 0>>)
    /\ \/ GetAllFails
       \/ GetAllReturns
    /\ UNCHANGED <<config, job_vars, map_vars, catalog, store, upc, fetch_vars>>

(***************************************************************************)
(* _process_url: the exists check                                          *)
(***************************************************************************)
\* Mutant: the skip is counted but the return is missing, so the url is
\* fetched all the same
SkipExistingNoReturn ==
    /\ returns' = Append(returns, <<"exists", url_id, Returned("True")>>)
    /\ summary' = add_skipped(summary, url_id)
    /\ upc' = "fetch"
    /\ UNCHANGED <<pc, idx, raised>>

\* if self._cwv_repo.exists(...): summary.add_skipped(...); return
SkipExisting ==
    /\ returns' = Append(returns, <<"exists", url_id, Returned("True")>>)
    /\ NextUrl(add_skipped(summary, url_id))

\* Mutant: the exists check is made before the try block, so its error
\* leaves _process_url and execute
ExistsRaisesUncaught ==
    /\ returns' = Append(returns, <<"exists", url_id, RepositoryException>>)
    /\ pc' = "raised"
    /\ raised' = RepositoryException
    /\ UNCHANGED <<idx, upc, summary>>

\* exists raises inside the try block
ExistsRaises == Raise("exists", RepositoryException)

ExistsCheck ==
    /\ pc = "loop"
    /\ upc = "exists"
    /\ calls' = Append(calls, <<"exists", url_id>>)
    /\ \/ ExistsRaises
       \/ \* data already exists for the date
          /\ url_id \in store
          /\ SkipExisting
       \/ /\ url_id \notin store
          /\ returns' = Append(returns, <<"exists", url_id, Returned("False")>>)
          /\ upc' = "fetch"
          /\ UNCHANGED <<pc, idx, summary, raised>>
    /\ FetchIdle
    /\ UNCHANGED <<config, job_vars, map_vars, catalog, store>>

(***************************************************************************)
(* fetch_core_web_vitals -> fetch_metrics: params and loop set-up          *)
(***************************************************************************)
\* Mutant: the client keeps counting attempts across calls, so a call
\* starts where the failed calls before it left off
first_attempt_carried ==
    Cardinality({i \in DOMAIN returns :
                    returns[i][1] = "fetch" /\ IsException(returns[i][3])})

\* for attempt in range(self._max_retries + 1): the first value
first_attempt == 0

FetchStart ==
    /\ pc = "loop"
    /\ upc = "fetch"
    /\ calls' = Append(calls, <<"fetch", url_id>>)
    /\ requests' = 0
    /\ sleeps' = <<>>
    /\ last_outcome' = NoException
    /\ attempt' = first_attempt
    /\ last_exception' = NoException
    /\ IF get_api_key_raises
       THEN /\ fpc' = "raised"
            /\ fetch_error' = ValueError
            /\ params_key' = NoKey
            /\ Raise("fetch", ValueError)
       ELSE IF ~InAttemptRange(first_attempt)
       THEN \* the loop body never runs: raise RequestException
            /\ params_key' = get_api_key
            /\ fpc' = "raised"
            /\ fetch_error' = RequestException
            /\ Raise("fetch", RequestException)
       ELSE /\ params_key' = get_api_key
            /\ fpc' = "request"
            /\ fetch_error' = NoException
            /\ upc' = "fetching"
            /\ UNCHANGED <<pc, idx, summary, raised, returns>>
    /\ UNCHANGED <<config, job_vars, map_vars, catalog, store>>

(***************************************************************************)
(* fetch_metrics: one iteration of the for loop up to the end of the       *)
(* try/except                                                              *)
(***************************************************************************)
\* Mutant: the payload is kept but the loop goes on to its next iteration
ReturnPayloadContinuing(o) ==
    /\ fpc' = "backoff"
    /\ UNCHANGED <<pc, idx, upc, summary, raised, last_exception, fetch_error, returns>>

\* response.raise_for_status() passes: return response.json(); the facade
\* maps the payload to a record and _process_url goes on to the store write
ReturnPayload(o) ==
    /\ fpc' = "returned"
    /\ upc' = "store"
    /\ returns' = Append(returns, <<"fetch", url_id, o>>)
    /\ UNCHANGED <<pc, idx, summary, raised, last_exception, fetch_error>>

\* Mutant: only the first error of the call is remembered
remember_first_exception(e) == IF last_exception = NoException THEN e ELSE last_exception

\* last_exception = e, in each of the three except clauses
remember_exception(e) == e

FetchRequest ==
    /\ pc = "loop"
    /\ upc = "fetching"
    /\ fpc = "request"
    /\ \E o \in RequestOutcomes :
          /\ requests' = requests + 1
          /\ last_outcome' = o
          /\ IF o = Ok200
             THEN ReturnPayload(o)
             ELSE IF o.kind = "HTTPError" /\ IsClientErrorNoRetry(status_code_of(o))
             THEN \* raise
                  /\ fpc' = "raised"
                  /\ fetch_error' = o
                  /\ Raise("fetch", o)
                  /\ UNCHANGED last_exception
             ELSE /\ last_exception' = remember_exception(o)
                  /\ fpc' = "backoff"
                  /\ UNCHANGED <<pc, idx, upc, summary, raised, fetch_error, returns>>
    /\ UNCHANGED <<config, job_vars, map_vars, catalog, store, attempt, sleeps, params_key, calls>>

(***************************************************************************)
(* fetch_metrics: the end of an iteration (sleep or not), then the next    *)
(* iteration or the raise after the loop                                   *)
(***************************************************************************)
FetchBackoff ==
    /\ pc = "loop"
    /\ upc = "fetching"
    /\ fpc = "backoff"
    /\ sleeps' = IF NotLastAttempt(attempt)
                 THEN Append(sleeps, wait_time(attempt))
                 ELSE sleeps
    /\ IF InAttemptRange(attempt + 1)
       THEN /\ attempt' = attempt + 1
            /\ fpc' = "request"
            /\ UNCHANGED <<pc, idx, upc, summary, raised, fetch_error, returns>>
       ELSE \* raise last_exception
            /\ fpc' = "raised"
            /\ fetch_error' = last_exception
            /\ Raise("fetch", last_exception)
            /\ UNCHANGED attempt
    /\ UNCHANGED <<config, job_vars, map_vars, catalog, store, last_exception, last_outcome, requests,
                   params_key, calls>>

(***************************************************************************)
(* _process_url: the store write                                           *)
(***************************************************************************)
\* The table's unique key on (url_id, execution_date): an INSERT for a url
\* that has a row for the date is rejected with an IntegrityError
unique_url_execution(id) == id \in store

\* Mutant: the INSERT replaces an existing row in place of failing on it
StoreAddUpserting ==
    /\ pc = "loop"
    /\ upc = "store"
    /\ calls' = Append(calls, <<"add", url_id>>)
    /\ \/ \* any other database error
          /\ Raise("add", RepositoryException)
          /\ UNCHANGED store
       \/ \* the row is written and committed
          /\ store' = store \cup {url_id}
          /\ returns' = Append(returns, <<"add", url_id, Returned("ok")>>)
          /\ NextUrl(add_success(summary, url_id))
    /\ FetchIdle
    /\ UNCHANGED <<config, job_vars, map_vars, catalog>>

\* Mutant: a database error is logged inside add, which then returns
StoreAddSwallowing ==
    /\ pc = "loop"
    /\ upc = "store"
    /\ calls' = Append(calls, <<"add", url_id>>)
    /\ \/ \* IntegrityError on unique_url_execution
          /\ unique_url_execution(url_id)
          /\ Raise("add", DuplicateRecordException)
          /\ UNCHANGED store
       \/ \* any other database error: nothing is inserted, add returns
          /\ UNCHANGED store
          /\ returns' = Append(returns, <<"add", url_id, Returned("ok")>>)
          /\ NextUrl(add_success(summary, url_id))
       \/ \* the row is inserted and committed
          /\ ~unique_url_execution(url_id)
          /\ store' = store \cup {url_id}
          /\ returns' = Append(returns, <<"add", url_id, Returned("ok")>>)
          /\ NextUrl(add_success(summary, url_id))
    /\ FetchIdle
    /\ UNCHANGED <<config, job_vars, map_vars, catalog>>

StoreAdd ==
    /\ pc = "loop"
    /\ upc = "store"
    /\ calls' = Append(calls, <<"add", url_id>>)
    /\ \/ \* IntegrityError on unique_url_execution
          /\ unique_url_execution(url_id)
          /\ Raise("add", DuplicateRecordException)
          /\ UNCHANGED store
       \/ \* any other database error
          /\ Raise("add", RepositoryException)
          /\ UNCHANGED store
       \/ \* the row is inserted and committed
          /\ ~unique_url_execution(url_id)
          /\ store' = store \cup {url_id}
          /\ returns' = Append(returns, <<"add", url_id, Returned("ok")>>)
          /\ NextUrl(add_success(summary, url_id))
    /\ FetchIdle
    /\ UNCHANGED <<config, job_vars, map_vars, catalog>>

(***************************************************************************)
(* Another writer inserts the row of the url being processed, after this   *)
(* run's exists check and before its store write.                          *)
(***************************************************************************)
ConcurrentWrite ==
    /\ pc = "loop"
    /\ upc \in {"fetch", "fetching", "store"}
    /\ ~unique_url_execution(url_id)
    /\ store' = store \cup {url_id}
    /\ UNCHANGED <<config, job_vars, map_vars, catalog, pc, idx, upc, summary, raised, fetch_vars, calls,
                   returns>>

\* One step of execute or of a call it makes
UseCaseStep ==
    \/ ExecuteStart
    \/ ExistsCheck
    \/ FetchStart
    \/ FetchRequest
    \/ FetchBackoff
    \/ StoreAdd

Next ==
    \/ JobMain
    \/ JobExit
    \/ ExecuteStart
    \/ ExistsCheck
    \/ FetchStart
    \/ FetchRequest
    \/ FetchBackoff
    \/ StoreAdd
    \/ ConcurrentWrite

Spec == Init /\ [][Next]_vars

(***************************************************************************)
(* execute called directly, with progress: every collaborator returns or   *)
(* raises, the sleep ends, and the interpreter runs the next statement, so *)
(* a step of the run that can be taken is eventually taken.                *)
(***************************************************************************)
InitLive ==
    /\ Init
    /\ job = "direct"
    /\ initial_backoff = JobInitialBackoff
    /\ api_key \in {NoKey, "key"}

NextLive ==
    \/ ExecuteStart
    \/ ExistsCheck
    \/ FetchStart
    \/ FetchRequest
    \/ FetchBackoff
    \/ StoreAdd

SpecLive == InitLive /\ [][NextLive]_vars /\ WF_vars(NextLive)

(***************************************************************************)
(* The conversion of a payload on its own: fetch_core_web_vitals after     *)
(* fetch_metrics has returned json_data, for every payload of Payloads.    *)
(***************************************************************************)
InitMapper ==
    /\ job = "direct"
    /\ exit_code = NoExit
    /\ max_retries = 0
    /\ initial_backoff = JobInitialBackoff
    /\ backoff_multiplier = JobBackoffMultiplier
    /\ api_key = "key"
    /\ catalog = <<1>>
    /\ store = {}
    /\ pc = "off"
    /\ idx = 1
    /\ upc = "fetching"
    /\ summary = NoSummary
    /\ raised = NoException
    /\ fpc = "returned"
    /\ attempt = 0
    /\ last_exception = NoException
    /\ fetch_error = NoException
    /\ last_outcome = Ok200
    /\ requests = 1
    /\ sleeps = <<>>
    /\ params_key = "key"
    /\ calls = <<>>
    /\ returns = <<>>
    /\ mpc = "json"
    /\ json_data \in Payloads(MaxFields)
    /\ response = NoRecord
    /\ record = NoRecord

\* response_dto = PageSpeedInsightsResponse(json_data)
BuildResponse ==
    /\ mpc = "json"
    /\ IF init_raises(json_data)
       THEN \* AttributeError: 'NoneType' object has no attribute 'get'
            /\ mpc' = "raised"
            /\ UNCHANGED response
       ELSE /\ response' = PageSpeedInsightsResponse(json_data)
            /\ mpc' = "dto"
    /\ UNCHANGED <<config, job_vars, catalog, store, pc, idx, upc, summary, raised,
                   fetch_vars, calls, returns, json_data, record>>

\* return self._mapper.to_core_web_vitals(url_id, execution_date, response_dto)
MapResponse ==
    /\ mpc = "dto"
    /\ IF to_core_web_vitals_raises(response)
       THEN \* AttributeError: 'NoneType' object has no attribute 'get'
            /\ mpc' = "raised"
            /\ UNCHANGED record
       ELSE /\ record' = to_core_web_vitals(url_id, response)
            /\ mpc' = "entity"
    /\ UNCHANGED <<config, job_vars, catalog, store, pc, idx, upc, summary, raised,
                   fetch_vars, calls, returns, json_data, response>>

NextMapper ==
    \/ BuildResponse
    \/ MapResponse

SpecMapper == InitMapper /\ [][NextMapper]_vars

(***************************************************************************)
(* Vocabulary of the properties                                            *)
(***************************************************************************)
UrlOps == {"exists", "fetch", "add"}

Called(op, id) == \E i \in DOMAIN calls : calls[i] = <<op, id>>

ReturnedWith(op, id, v) == \E i \in DOMAIN returns : returns[i] = <<op, id, v>>

\* an exception was raised inside _process_url for url id
RaisedFor(id) ==
    \E i \in DOMAIN returns :
        returns[i][1] \in UrlOps /\ returns[i][2] = id /\ IsException(returns[i][3])

ResultsFor(id) == {j \in DOMAIN summary.results : summary.results[j].url_id = id}

FailureEntry(id, e) ==
    \E j \in DOMAIN summary.results :
        summary.results[j] = URLExecutionResult(id, FALSE, error_msg(e))

Counted == summary.successful + summary.failed + summary.skipped

\* number of urls whose _process_url call has returned
ProcessedCount ==
    CASE pc = "loop" -> idx - 1
      [] pc = "done" -> Len(catalog)
      [] OTHER -> 0

\* skip decisions taken so far: exists returned True, or a duplicate signal
SkipEvents ==
    {i \in DOMAIN returns :
        /\ returns[i][1] \in UrlOps
        /\ \/ returns[i][3] = Returned("True")
           \/ IsDuplicateRecordException(returns[i][3])}

(***************************************************************************)
(* C1 (as amended): an exception raised while processing url i by the      *)
(* exists check, the fetch or the store write never leaves execute; url i  *)
(* is recorded as failed with that error, except that the duplicate-record *)
(* signal records it as skipped with no failure entry; when execute        *)
(* returns, every url of the catalog has been attempted and has exactly    *)
(* one outcome of its own.                                                 *)
(***************************************************************************)
C1_Isolated ==
    /\ \A i \in DOMAIN returns :
          (returns[i][1] \in UrlOps /\ IsException(returns[i][3])) =>
             /\ pc # "raised"
             /\ summary # NoSummary
             /\ IF IsDuplicateRecordException(returns[i][3])
                THEN ResultsFor(returns[i][2]) = {} /\ summary.skipped >= 1
                ELSE FailureEntry(returns[i][2], returns[i][3])
    /\ pc = "done" =>
          \A k \in DOMAIN catalog :
             /\ Called("exists", catalog[k])
             /\ Cardinality(ResultsFor(catalog[k]))
                  + Cardinality({i \in SkipEvents : returns[i][2] = catalog[k]}) = 1

\* C1: the isolation holds at every state of every run
C1_FailureIsolation == []C1_Isolated

\* C1 as stated: every exception raised while processing a url records that
\* url as failed.
C1_Original ==
    \A i \in DOMAIN returns :
        (returns[i][1] \in UrlOps /\ IsException(returns[i][3])) =>
            /\ pc # "raised"
            /\ FailureEntry(returns[i][2], returns[i][3])

\* the fetch of the first url raised, the second url was still stored
C1_Witness ==
    /\ pc = "done"
    /\ Len(catalog) = 2
    /\ ReturnedWith("fetch", catalog[1], TimeoutExc)
    /\ ReturnedWith("add", catalog[2], Returned("ok"))
    /\ summary.failed = 1
    /\ summary.successful = 1

(***************************************************************************)
(* C2 (as amended): in every reachable state of a summary,                 *)
(* successful + failed + skipped equals the number of entries in results   *)
(* plus skipped (add_skipped appends no entry), so the sum equals          *)
(* len(results) exactly while skipped is 0.                                *)
(***************************************************************************)
C2_SummaryCount ==
    summary # NoSummary =>
        /\ Counted = Len(summary.results) + summary.skipped
        /\ (Counted = Len(summary.results)) <=> (summary.skipped = 0)

\* C2 as stated: successful + failed + skipped == len(results)
C2_Original == summary # NoSummary => Counted = Len(summary.results)

\* a summary holding a skip next to recorded entries
C2_Witness ==
    /\ summary # NoSummary
    /\ summary.skipped >= 1
    /\ Len(summary.results) >= 1

(***************************************************************************)
(* C3: every url of the catalog updates the summary exactly once:          *)
(* processing one url increments exactly one of successful, failed,        *)
(* skipped by exactly 1 and leaves the other two unchanged; after k urls   *)
(* the three counters sum to k, and when execute returns they sum to       *)
(* total_urls = len(catalog).                                              *)
(***************************************************************************)
C3_Counters ==
    summary # NoSummary =>
        /\ summary.total_urls = Len(catalog)
        /\ Counted = ProcessedCount
        /\ pc = "done" => Counted = summary.total_urls

C3_OneIncrement ==
    LET ds == summary'.successful - summary.successful
        df == summary'.failed - summary.failed
        dk == summary'.skipped - summary.skipped
    IN  summary # NoSummary =>
          /\ summary'.total_urls = summary.total_urls
          /\ IF idx' # idx
             THEN /\ idx' = idx + 1
                  /\ <<ds, df, dk>> \in {<<1, 0, 0>>, <<0, 1, 0>>, <<0, 0, 1>>}
             ELSE summary' = summary

C3_UpdatedExactlyOnce == [](C3_Counters) /\ [][C3_OneIncrement]_vars

\* two urls processed with two different outcomes
C3_Witness ==
    /\ pc = "done"
    /\ Len(catalog) = 2
    /\ summary.skipped = 1
    /\ summary.failed = 1

(***************************************************************************)
(* C4: if the exists check returns true for a url, that url is counted as  *)
(* skipped and neither the fetch nor the store write is ever called for    *)
(* it; a url for which exists returns false is fetched, and stored when    *)
(* the fetch returns a record.                                             *)
(***************************************************************************)
\* _process_url is still running for url id
InProgress(id) == pc = "loop" /\ upc # "exists" /\ url_id = id

C4_Skipped ==
    /\ summary # NoSummary => summary.skipped = Cardinality(SkipEvents)
    /\ \A i \in DOMAIN returns :
          returns[i][1] = "exists" =>
             /\ returns[i][3] = Returned("True") =>
                   /\ ~Called("fetch", returns[i][2])
                   /\ ~Called("add", returns[i][2])
                   /\ ~InProgress(returns[i][2])
                   /\ ResultsFor(returns[i][2]) = {}
             /\ (returns[i][3] = Returned("False") /\ ~InProgress(returns[i][2])) =>
                   /\ Called("fetch", returns[i][2])
                   /\ ReturnedWith("fetch", returns[i][2], Ok200)
                         => Called("add", returns[i][2])

\* C4: the skip rule holds at every state of every run
C4_SkipExisting == []C4_Skipped

\* first url skipped because its data exists, second url fetched and stored
C4_Witness ==
    /\ pc = "done"
    /\ Len(catalog) = 2
    /\ ReturnedWith("exists", catalog[1], Returned("True"))
    /\ ReturnedWith("exists", catalog[2], Returned("False"))
    /\ ReturnedWith("add", catalog[2], Returned("ok"))
    /\ summary.skipped = 1

(***************************************************************************)
(* C5: when the store write for a url raises the duplicate-record signal,  *)
(* skipped is incremented, failed and successful are not, and no failure   *)
(* entry is recorded for the url.                                          *)
(***************************************************************************)
C5_Step ==
    LET n == Len(returns')
    IN  (/\ n = Len(returns) + 1
         /\ returns'[n][1] = "add"
         /\ IsDuplicateRecordException(returns'[n][3])) =>
            /\ summary'.skipped = summary.skipped + 1
            /\ summary'.failed = summary.failed
            /\ summary'.successful = summary.successful
            /\ summary'.results = summary.results
            /\ \A j \in DOMAIN summary'.results :
                  summary'.results[j].url_id # returns'[n][2]

C5_DuplicateIsSkipped == [][C5_Step]_vars

\* a store write lost the race and the url was skipped
C5_Witness ==
    /\ \E i \in DOMAIN returns :
          returns[i][1] = "add" /\ IsDuplicateRecordException(returns[i][3])
    /\ summary.skipped = 1
    /\ summary.failed = 0

(***************************************************************************)
(* C6: if the catalog fetch (get_all) fails with a repository error,       *)
(* execute propagates that error, returns no summary, and makes no exists  *)
(* check, fetch or store call.                                             *)
(***************************************************************************)
C6_CatalogFailure ==
    ReturnedWith("get_all", 0, RepositoryException) =>
        /\ pc = "raised"
        /\ raised = RepositoryException
        /\ summary = NoSummary
        /\ calls = << <<"get_all", 0>> >>
        /\ ~ENABLED UseCaseStep

\* execute was left by the repository error of get_all
C6_Witness ==
    /\ pc = "raised"
    /\ ReturnedWith("get_all", 0, RepositoryException)
    /\ Len(catalog) = 2

(***************************************************************************)
(* Classification of request outcomes, as the properties state it          *)
(***************************************************************************)
\* an HTTP error response whose status is in [400,500) and is not 429
ClientErrorResponse(o) ==
    /\ o.kind = "HTTPError"
    /\ o.resp # "none"
    /\ 400 <= o.status
    /\ o.status < 500
    /\ o.status # 429

\* a 5xx response, a 429 response, a timeout or any other transport error
RetryableError(o) == IsException(o) /\ ~ClientErrorResponse(o)

(***************************************************************************)
(* C7: one fetch_metrics call issues at most max_retries + 1 HTTP          *)
(* requests; a call that fails on a retryable error (every attempt failed) *)
(* has issued exactly max_retries + 1 requests and raises.                 *)
(***************************************************************************)
C7_AttemptBound ==
    /\ requests <= max_retries + 1
    /\ (fpc = "raised" /\ requests > 0 /\ RetryableError(last_outcome)) =>
          /\ requests = max_retries + 1
          /\ IsException(fetch_error)

\* a persistent timeout with max_retries = 2: three requests, then the raise
C7_Witness ==
    /\ fpc = "raised"
    /\ max_retries = 2
    /\ requests = 3
    /\ last_outcome = TimeoutExc
    /\ fetch_error = TimeoutExc

(***************************************************************************)
(* C8: an HTTP error response whose status is in [400,500) and is not 429  *)
(* makes fetch_metrics fail at once with that error, on whichever attempt  *)
(* it occurs: no further request and no sleep follow it.                   *)
(***************************************************************************)
C8_ClientErrorFailsAtOnce ==
    (requests > 0 /\ ClientErrorResponse(last_outcome)) =>
        /\ fpc = "raised"
        /\ fetch_error = last_outcome

(***************************************************************************)
(* C9: a 5xx response, a 429 response, a timeout and any other transport   *)
(* error are retryable: on an attempt that is not the last allowed one     *)
(* the call does not fail but goes on to another request, and a 2xx        *)
(* response makes the call return that payload.                            *)
(***************************************************************************)
C9_Step ==
    /\ (/\ fpc = "request"
        /\ requests' = requests + 1
        /\ RetryableError(last_outcome')
        /\ requests < max_retries) =>
           /\ fpc' = "backoff"
           /\ last_exception' = last_outcome'
           /\ <<pc, idx, upc, summary, raised, returns>>' =
                 <<pc, idx, upc, summary, raised, returns>>
    /\ (/\ fpc = "backoff"
        /\ requests <= max_retries
        /\ fpc' # fpc) =>
           /\ fpc' = "request"
           /\ <<pc, idx, upc, summary, raised, returns>>' =
                 <<pc, idx, upc, summary, raised, returns>>
    /\ (/\ fpc = "request"
        /\ requests' = requests + 1
        /\ last_outcome' = Ok200) =>
           /\ fpc' = "returned"
           /\ upc' = "store"
           /\ returns' = Append(returns, <<"fetch", url_id, Ok200>>)

C9_RetryableErrors == [][C9_Step]_vars

\* a 500 and then a rate limit, answered by a 2xx on the third request
C9_Witness ==
    /\ fpc = "returned"
    /\ requests = 3
    /\ last_exception = Exc("HTTPError", 429, "real")
    /\ last_outcome = Ok200

(***************************************************************************)
(* C10: the sleep that follows failed attempt k (from 0) lasts             *)
(* initial_backoff * backoff_multiplier^k; exactly one sleep separates two *)
(* consecutive requests and none follows the final allowed attempt, so an  *)
(* exhausted call has slept max_retries times and a failure followed by a  *)
(* success has slept once, for initial_backoff.                            *)
(***************************************************************************)
C10_BackoffSchedule ==
    /\ \A k \in DOMAIN sleeps :
          sleeps[k] = initial_backoff * (backoff_multiplier ^ (k - 1))
    /\ fpc = "request" => Len(sleeps) = requests
    /\ fpc \in {"backoff", "returned"} => Len(sleeps) = requests - 1
    /\ fpc = "raised" => Len(sleeps) = IF requests = 0 THEN 0 ELSE requests - 1
    /\ (fpc = "raised" /\ requests = max_retries + 1) => Len(sleeps) = max_retries
    /\ (fpc = "returned" /\ requests = 2) => sleeps = <<initial_backoff>>

\* an exhausted call with max_retries = 2 has slept twice, 3 s then 6 s
C10_Witness ==
    /\ fpc = "raised"
    /\ max_retries = 2
    /\ requests = 3
    /\ initial_backoff = 3
    /\ backoff_multiplier = 2
    /\ sleeps = <<3, 6>>

(***************************************************************************)
(* C11: inside one fetch_metrics call the first 2xx response ends the      *)
(* call: the step that receives it returns its payload to _process_url,    *)
(* and from then on the call issues no request and sleeps no more,         *)
(* whatever number of attempts is still allowed.                           *)
(***************************************************************************)
C11_Step ==
    /\ (requests' = requests + 1 /\ last_outcome' = Ok200) =>
          /\ fpc' = "returned"
          /\ sleeps' = sleeps
          /\ Len(returns') = Len(returns) + 1
          /\ returns'[Len(returns')] = <<"fetch", url_id, Ok200>>
          /\ pc' = "loop" /\ upc' = "store"
    /\ fpc = "returned" =>
          /\ fpc' \in {"returned", "idle"}
          /\ requests' <= requests
          /\ Len(sleeps') <= Len(sleeps)

C12_LastErrorRaised ==
    (fpc = "raised" /\ requests = max_retries + 1) =>
        /\ IsException(last_outcome)
        /\ fetch_error = last_outcome
        /\ returns[Len(returns)] = <<"fetch", returns[Len(returns)][2], last_outcome>>

\* three attempts were made and the third one's HTTP 500 was raised
C12_Witness ==
    /\ fpc = "raised"
    /\ max_retries = 2
    /\ requests = 3
    /\ Len(sleeps) = 2
    /\ last_outcome = Exc("HTTPError", 500, "real")
    /\ fetch_error = Exc("HTTPError", 500, "real")

(***************************************************************************)
(* C13: when the API credential is missing or is the placeholder, a run of *)
(* the collection job ends in main's pre-flight check with exit code 1:    *)
(* execute is never entered, no repository or fetch call is made, no url   *)
(* is processed and no summary counts anything.                            *)
(***************************************************************************)
C13_AbortsBeforeLoop ==
    (job # "direct" /\ api_key \in {NoKey, "", "your_api_key_here"}) =>
        /\ job \in {"main", "exited"}
        /\ job = "exited" => exit_code = 1
        /\ pc = "start"
        /\ calls = <<>>
        /\ returns = <<>>
        /\ summary = NoSummary
        /\ ~ENABLED UseCaseStep

\* the job has exited on the placeholder key with two urls in the catalog
C13_Witness ==
    /\ job = "exited"
    /\ exit_code = 1
    /\ api_key = "your_api_key_here"
    /\ Len(catalog) = 2

(***************************************************************************)
(* C14 (as amended): for each url, one execute run makes zero or one       *)
(* fetch call and zero or one store write; one fetch call issues up to     *)
(* max_retries + 1 HTTP requests to the API, not at most one.              *)
(***************************************************************************)
CallCount(op, id) == Cardinality({i \in DOMAIN calls : calls[i] = <<op, id>>})

C14_Counts ==
    /\ \A id \in UrlIds :
          /\ CallCount("exists", id) <= 1
          /\ CallCount("fetch", id) <= 1
          /\ CallCount("add", id) <= CallCount("fetch", id)
    /\ requests <= max_retries + 1

\* C14: the call counts hold at every state of every run
C14_OneFetchOneWrite == []C14_Counts

\* C14 as stated, an outbound API call being an HTTP request: at most one
\* request per url and at most one store write
C14_Original ==
    /\ \A id \in UrlIds : CallCount("fetch", id) <= 1 /\ CallCount("add", id) <= 1
    /\ requests <= 1

\* the fetch of a url succeeded at its third request; its write is next
C14_Witness ==
    /\ upc = "store"
    /\ fpc = "returned"
    /\ requests = 3
    /\ CallCount("fetch", url_id) = 1
    /\ CallCount("add", url_id) = 0

(***************************************************************************)
(* C15: when get_all returns an empty catalog, execute returns a summary   *)
(* with total_urls = 0, all counters 0 and no entry, and makes no exists,  *)
(* fetch or store-write call.                                              *)
(***************************************************************************)
C15_EmptyCatalog ==
    (Len(catalog) = 0 /\ ReturnedWith("get_all", 0, Returned("ok"))) =>
        /\ pc = "done"
        /\ raised = NoException
        /\ summary = [total_urls |-> 0, successful |-> 0, failed |-> 0, skipped |-> 0,
                      results |-> <<>>]
        /\ calls = << <<"get_all", 0>> >>
        /\ requests = 0

\* execute has returned on an empty catalog
C15_Witness ==
    /\ Len(catalog) = 0
    /\ pc = "done"
    /\ summary # NoSummary
    /\ summary.total_urls = 0

(***************************************************************************)
(* C16: for a catalog of N urls where every exists check returns false and *)
(* every fetch and store write succeeds, execute returns successful = N,   *)
(* failed = 0, skipped = 0, after exactly N fetch calls and exactly N      *)
(* store writes.                                                           *)
(***************************************************************************)
AllSucceeded ==
    \A i \in DOMAIN returns :
        returns[i][3] \in {Returned("ok"), Returned("False"), Ok200}

C16_AllSuccess ==
    (pc = "done" /\ AllSucceeded) =>
        /\ summary.total_urls = Len(catalog)
        /\ summary.successful = Len(catalog)
        /\ summary.failed = 0
        /\ summary.skipped = 0
        /\ Cardinality({i \in DOMAIN calls : calls[i][1] = "fetch"}) = Len(catalog)
        /\ Cardinality({i \in DOMAIN calls : calls[i][1] = "add"}) = Len(catalog)
        /\ \A k \in DOMAIN catalog :
              CallCount("fetch", catalog[k]) = 1 /\ CallCount("add", catalog[k]) = 1

\* a run over the largest catalog in which everything succeeded
C16_Witness ==
    /\ pc = "done"
    /\ Len(catalog) = MaxUrls
    /\ AllSucceeded
    /\ summary.successful = MaxUrls

(***************************************************************************)
(* C17: when the store write for a url fails with an error other than the  *)
(* duplicate-record signal, failed is incremented by one, successful and   *)
(* skipped are unchanged, and one failure entry is appended for the url    *)
(* whose error text carries the store error.                               *)
(***************************************************************************)
C17_Step ==
    LET n == Len(returns')
    IN  (/\ n = Len(returns) + 1
         /\ returns'[n][1] = "add"
         /\ IsException(returns'[n][3])
         /\ returns'[n][3].kind # "DuplicateRecordException") =>
            /\ summary'.failed = summary.failed + 1
            /\ summary'.successful = summary.successful
            /\ summary'.skipped = summary.skipped
            /\ summary'.results =
                  Append(summary.results,
                         [url_id |-> returns'[n][2], success |-> FALSE,
                          error_message |-> <<returns'[n][3].kind, returns'[n][3].status>>])
            /\ returns'[n][2] \notin store' \ store

C17_StoreFailureIsFailed == [][C17_Step]_vars

\* the store write of the only url failed with a repository error
C17_Witness ==
    /\ pc = "done"
    /\ Len(catalog) = 1
    /\ ReturnedWith("add", catalog[1], RepositoryException)
    /\ summary.failed = 1
    /\ summary.successful = 0
    /\ summary.skipped = 0

(***************************************************************************)
(* C18: when the fetch for a url raises an exception, the exception does   *)
(* not leave execute, the url is recorded as failed with a failure entry   *)
(* whose text is "<kind>: <message>" of the exception, and no store write  *)
(* is made for that url.                                                   *)
(***************************************************************************)
C18_Step ==
    LET n == Len(returns')
    IN  (/\ n = Len(returns) + 1
         /\ returns'[n][1] = "fetch"
         /\ IsException(returns'[n][3])) =>
            /\ pc' # "raised"
            /\ raised' = NoException
            /\ summary'.failed = summary.failed + 1
            /\ summary'.successful = summary.successful
            /\ summary'.skipped = summary.skipped
            /\ summary'.results =
                  Append(summary.results,
                         [url_id |-> returns'[n][2], success |-> FALSE,
                          error_message |-> <<returns'[n][3].kind, returns'[n][3].status>>])

C18_NoWriteAfterFailedFetch ==
    \A i \in DOMAIN returns :
        (returns[i][1] = "fetch" /\ IsException(returns[i][3])) =>
            /\ ~Called("add", returns[i][2])
            /\ pc # "raised"

C18_FetchFailureIsFailed == []C18_NoWriteAfterFailedFetch /\ [][C18_Step]_vars

\* the fetch of the first url ran out of attempts on timeouts; the run went
\* on to the second url
C18_Witness ==
    /\ Len(catalog) = 2
    /\ ReturnedWith("fetch", catalog[1], TimeoutExc)
    /\ ~Called("add", catalog[1])
    /\ Called("exists", catalog[2])
    /\ summary.failed >= 1

(***************************************************************************)
(* C19: get_api_key fails exactly when no credential is configured (absent *)
(* or empty) or the credential is the placeholder; otherwise it returns    *)
(* the configured credential unchanged, which is the key the request       *)
(* parameters carry; is_configured is true exactly when get_api_key would  *)
(* not fail.                                                               *)
(***************************************************************************)
Unconfigured == api_key \in {NoKey, "", "your_api_key_here"}

C19_CredentialCheck ==
    /\ get_api_key_raises <=> Unconfigured
    /\ is_configured <=> ~get_api_key_raises
    /\ ~Unconfigured => get_api_key = api_key
    /\ \A i \in DOMAIN returns :
          returns[i][1] = "fetch" =>
             (returns[i][3] = ValueError <=> Unconfigured)
    /\ fpc \notin {"idle"} =>
          /\ Unconfigured => (fpc = "raised" /\ requests = 0 /\ params_key = NoKey)
          /\ ~Unconfigured => params_key = api_key

\* a fetch failed on the placeholder key before any request was made
C19_Witness ==
    /\ api_key = "your_api_key_here"
    /\ fpc = "raised"
    /\ fetch_error = ValueError
    /\ requests = 0
    /\ ~is_configured

(***************************************************************************)
(* C20: the record's performance_score is 100 * s when the payload has a   *)
(* score s, and 0 (not unknown) when it has none; each of the twelve other *)
(* metrics is unknown exactly when the payload has no value for its field  *)
(* (the field, its object or its section is missing, or the value is       *)
(* null), and is the payload's value otherwise, 0 included.                *)
(***************************************************************************)
\* the payload's value at section / group / key / leaf, None when any of the
\* four is missing
ValueAt(section, group, key, leaf) ==
    IF section \notin DOMAIN json_data THEN None
    ELSE IF group \notin DOMAIN json_data[section] THEN None
    ELSE IF key \notin DOMAIN json_data[section][group] THEN None
    ELSE IF leaf \notin DOMAIN json_data[section][group][key] THEN None
    ELSE json_data[section][group][key][leaf]

AuditOf ==
    [first_contentful_paint |-> "first-contentful-paint",
     largest_contentful_paint |-> "largest-contentful-paint",
     total_blocking_time |-> "total-blocking-time",
     cumulative_layout_shift |-> "cumulative-layout-shift",
     speed_index |-> "speed-index",
     time_to_first_byte |-> "server-response-time",
     time_to_interactive |-> "interactive"]

FieldMetricOf ==
    [crux_largest_contentful_paint |-> "LARGEST_CONTENTFUL_PAINT_MS",
     crux_interaction_to_next_paint |-> "INTERACTION_TO_NEXT_PAINT",
     crux_cumulative_layout_shift |-> "CUMULATIVE_LAYOUT_SHIFT_SCORE",
     crux_first_contentful_paint |-> "FIRST_CONTENTFUL_PAINT_MS",
     crux_time_to_first_byte |-> "EXPERIMENTAL_TIME_TO_FIRST_BYTE"]

PayloadValue(f) ==
    IF f \in DOMAIN AuditOf
    THEN ValueAt("lighthouseResult", "audits", AuditOf[f], "numericValue")
    ELSE ValueAt("loadingExperience", "metrics", FieldMetricOf[f], "percentile")

PayloadScore == ValueAt("lighthouseResult", "categories", "performance", "score")

C20_ScoreAndMetrics ==
    mpc = "entity" =>
        /\ PayloadScore # None => record.performance_score = 100 * PayloadScore
        /\ PayloadScore = None => record.performance_score = 0
        /\ record.performance_score # None
        /\ Cardinality(DOMAIN AuditOf \cup DOMAIN FieldMetricOf) = 12
        /\ \A f \in DOMAIN AuditOf \cup DOMAIN FieldMetricOf :
              /\ record[f] = None <=> PayloadValue(f) = None
              /\ PayloadValue(f) # None => record[f] = PayloadValue(f)
              /\ PayloadValue(f) = 0 => record[f] = 0

\* a payload without a score, with a speed index of 0 and no other audit
C20_Witness ==
    /\ mpc = "entity"
    /\ PayloadScore = None
    /\ record.performance_score = 0
    /\ PayloadValue("speed_index") = 0
    /\ record.speed_index = 0
    /\ record.first_contentful_paint = None
    /\ record.crux_time_to_first_byte = None

(***************************************************************************)
(* C21: mapping a raw payload to a metrics record never fails: for every   *)
(* payload shape (any top-level section, any sub-metric object or any      *)
(* value absent or null) building the response DTO and calling             *)
(* to_core_web_vitals returns a record, with no exception at either step.  *)
(***************************************************************************)
C21_MappingNeverFails == mpc # "raised"

(***************************************************************************)
(* C22: urls are processed in the order of the catalog list: every         *)
(* exists, fetch and store call for a url comes before any such call for a *)
(* url later in the list, in the order exists, fetch, store for one url,   *)
(* and the entries of results appear in catalog order.                     *)
(***************************************************************************)
PosOf(id) == CHOOSE k \in DOMAIN catalog : catalog[k] = id

OpRank(op) == CASE op = "exists" -> 1 [] op = "fetch" -> 2 [] op = "add" -> 3 [] OTHER -> 0

C22_Ordered ==
    /\ \A i, j \in DOMAIN calls :
          (i < j /\ calls[j][1] \in UrlOps) =>
             IF calls[i][1] \in UrlOps
             THEN \/ PosOf(calls[i][2]) < PosOf(calls[j][2])
                  \/ /\ calls[i][2] = calls[j][2]
                     /\ OpRank(calls[i][1]) < OpRank(calls[j][1])
             ELSE i = 1 /\ calls[i][1] = "get_all"
    /\ \A i \in DOMAIN calls :
          calls[i][1] \in UrlOps =>
             /\ calls[i][2] \in Range(catalog)
             /\ \A k \in 1..(PosOf(calls[i][2]) - 1) : Called("exists", catalog[k])
    /\ summary # NoSummary =>
          \A i, j \in DOMAIN summary.results :
             i < j => PosOf(summary.results[i].url_id) < PosOf(summary.results[j].url_id)

\* C22: the order holds at every state of every run
C22_CatalogOrder == []C22_Ordered

\* both urls of a catalog were fetched and have their entries
C22_Witness ==
    /\ pc = "done"
    /\ Len(catalog) = 2
    /\ Called("fetch", catalog[1])
    /\ Called("add", catalog[1])
    /\ Called("fetch", catalog[2])
    /\ Len(summary.results) = 2
    /\ summary.results[1].url_id = catalog[1]
    /\ summary.results[2].url_id = catalog[2]

(***************************************************************************)
(* C23: the collection job exits with code 0 if and only if execute        *)
(* returned a summary with failed = 0, whatever its successful and skipped *)
(* counts, and with code 1 when failed > 0.                                *)
(***************************************************************************)
C23_ExitCode ==
    job = "exited" =>
        /\ exit_code \in {0, 1}
        /\ exit_code = 0 <=> (pc = "done" /\ summary.failed = 0)
        /\ (pc = "done" /\ summary.failed > 0) => exit_code = 1

\* the job exited with 0 after a run that stored one url and skipped one
C23_Witness ==
    /\ job = "exited"
    /\ exit_code = 0
    /\ pc = "done"
    /\ summary.successful = 1
    /\ summary.skipped = 1
    /\ summary.failed = 0

(***************************************************************************)
(* C24: when another run stores the row of a url after this run's exists   *)
(* check returned false and before this run's store write, the store keeps *)
(* that one row: this run's write is rejected and inserts nothing, and on  *)
(* the duplicate signal this run counts the url as skipped and not as      *)
(* failed; a write that finds no row inserts it and counts the url as      *)
(* successful.                                                             *)
(***************************************************************************)
C24_Step ==
    LET n == Len(returns')
    IN  (n = Len(returns) + 1 /\ returns'[n][1] = "add") =>
           IF returns'[n][2] \in store
           THEN \* the write lost the race
                /\ ReturnedWith("exists", returns'[n][2], Returned("False"))
                /\ IsException(returns'[n][3])
                /\ store' = store
                /\ summary'.successful = summary.successful
                /\ IsDuplicateRecordException(returns'[n][3]) =>
                      /\ summary'.skipped = summary.skipped + 1
                      /\ summary'.failed = summary.failed
                      /\ summary'.results = summary.results
           ELSE \* no row yet: the write inserts it unless the database fails
                /\ store' \in {store, store \cup {returns'[n][2]}}
                /\ returns'[n][3] = Returned("ok") <=> store' # store
                /\ returns'[n][3] = Returned("ok") =>
                      /\ summary'.successful = summary.successful + 1
                      /\ summary'.failed = summary.failed
                      /\ summary'.skipped = summary.skipped

C25_Step ==
    /\ <<max_retries, initial_backoff, backoff_multiplier, api_key>>' =
          <<max_retries, initial_backoff, backoff_multiplier, api_key>>
    /\ (Len(calls') = Len(calls) + 1 /\ calls'[Len(calls')][1] = "fetch") =>
          /\ attempt' = 0
          /\ requests' = 0
          /\ sleeps' = <<>>
          /\ last_exception' = NoException
          /\ api_key = "key" => fpc' = "request"

C25_CallState ==
    /\ fpc = "request" => (requests = attempt /\ attempt <= max_retries)
    /\ fpc = "backoff" => (requests = attempt + 1 /\ attempt <= max_retries)
    /\ fpc \in {"request", "backoff"} => Len(sleeps) = attempt
    /\ sleeps # <<>> => sleeps[1] = initial_backoff

C25_RetryStateIsLocal == []C25_CallState /\ [][C25_Step]_vars

\* the call for the first url used up its attempts on timeouts; the call
\* for the second url has again made max_retries + 1 requests
C25_Witness ==
    /\ Len(catalog) = 2
    /\ pc = "loop"
    /\ idx = 2
    /\ max_retries = 2
    /\ ReturnedWith("fetch", catalog[1], TimeoutExc)
    /\ fpc = "backoff"
    /\ requests = max_retries + 1
    /\ sleeps[1] = initial_backoff
    /\ Len(sleeps) = max_retries

(***************************************************************************)
(* C26: in every state of a summary the number of results entries with     *)
(* success = false equals failed, the number with success = true equals    *)
(* successful, so len(results) = successful + failed; a step that counts a *)
(* skip leaves results unchanged; get_failed_urls returns exactly one      *)
(* entry, with the error's text, for each url that failed and none for any *)
(* other url.                                                              *)
(***************************************************************************)
\* the errors that made url id fail: raised for it and not the duplicate signal
FailuresOf(id) ==
    {i \in DOMAIN returns :
        /\ returns[i][1] \in UrlOps
        /\ returns[i][2] = id
        /\ IsException(returns[i][3])
        /\ returns[i][3].kind # "DuplicateRecordException"}

C26_Counters ==
    summary # NoSummary =>
        /\ Len(get_failed_urls(summary)) = summary.failed
        /\ Len(get_successful_urls(summary)) = summary.successful
        /\ Len(summary.results) = summary.successful + summary.failed
        /\ \A id \in UrlIds :
              LET entries == {j \in DOMAIN get_failed_urls(summary) :
                                 get_failed_urls(summary)[j].url_id = id}
              IN  /\ Cardinality(entries) = Cardinality(FailuresOf(id))
                  /\ Cardinality(entries) <= 1
                  /\ \A j \in entries : \A i \in FailuresOf(id) :
                        get_failed_urls(summary)[j].error_message =
                           <<returns[i][3].kind, returns[i][3].status>>

C26_Step ==
    (summary # NoSummary /\ summary'.skipped # summary.skipped) =>
        /\ summary'.skipped = summary.skipped + 1
        /\ summary'.results = summary.results
        /\ summary'.failed = summary.failed
        /\ summary'.successful = summary.successful

C26_ResultsMatchCounters == []C26_Counters /\ [][C26_Step]_vars

\* one url failed, the other was skipped: one entry, two urls counted
C26_Witness ==
    /\ pc = "done"
    /\ summary.failed = 1
    /\ summary.skipped = 1
    /\ Len(summary.results) = 1
    /\ Len(get_failed_urls(summary)) = 1
    /\ get_failed_urls(summary)[1].error_message = <<"Timeout", 0>>

(***************************************************************************)
(* C27: if the exists check raises for a url, the url is counted as failed *)
(* (with a failure entry for the error), neither the fetch nor the store   *)
(* write is called for it, and the run goes on with the next url.          *)
(***************************************************************************)
C27_Step ==
    LET n == Len(returns')
    IN  (/\ n = Len(returns) + 1
         /\ returns'[n][1] = "exists"
         /\ IsException(returns'[n][3])) =>
            /\ summary'.failed = summary.failed + 1
            /\ summary'.successful = summary.successful
            /\ summary'.skipped = summary.skipped
            /\ summary'.results =
                  Append(summary.results,
                         [url_id |-> returns'[n][2], success |-> FALSE,
                          error_message |-> <<returns'[n][3].kind, returns'[n][3].status>>])
            /\ raised' = NoException
            /\ idx' = idx + 1
            /\ pc' = IF idx < Len(catalog) THEN "loop" ELSE "done"
            /\ pc' = "loop" => upc' = "exists"

C27_NoFetchNoWrite ==
    \A i \in DOMAIN returns :
        (returns[i][1] = "exists" /\ IsException(returns[i][3])) =>
            /\ ~Called("fetch", returns[i][2])
            /\ ~Called("add", returns[i][2])
            /\ pc = "done" => \A k \in DOMAIN catalog : Called("exists", catalog[k])

C27_ExistsFailureIsFailed == []C27_NoFetchNoWrite /\ [][C27_Step]_vars

\* the exists check of the first url raised; the second url was fetched
C27_Witness ==
    /\ Len(catalog) = 2
    /\ ReturnedWith("exists", catalog[1], RepositoryException)
    /\ ~Called("fetch", catalog[1])
    /\ ~Called("add", catalog[1])
    /\ Called("fetch", catalog[2])
    /\ summary.failed >= 1

(***************************************************************************)
(* C28: a url is counted successful only if its fetch returned a record    *)
(* and the store write for it completed without error, leaving its row in  *)
(* the store; the number of completed store writes equals successful; and  *)
(* no store write is attempted for a url skipped by the exists check or    *)
(* whose fetch failed.                                                     *)
(***************************************************************************)
CompletedWrites == {i \in DOMAIN returns : returns[i][1] = "add" /\ returns[i][3] = Returned("ok")}

C28_Agrees ==
    summary # NoSummary =>
        /\ \A j \in DOMAIN summary.results :
              summary.results[j].success =>
                 /\ ReturnedWith("fetch", summary.results[j].url_id, Ok200)
                 /\ ReturnedWith("add", summary.results[j].url_id, Returned("ok"))
                 /\ summary.results[j].url_id \in store
        /\ summary.successful = Cardinality(CompletedWrites)
        /\ \A i \in CompletedWrites : returns[i][2] \in store
        /\ \A i \in DOMAIN returns :
              (\/ returns[i] = <<"exists", returns[i][2], Returned("True")>>
               \/ returns[i][1] = "fetch" /\ IsException(returns[i][3])) =>
                  ~Called("add", returns[i][2])

\* C28: the summary agrees with the store at every state of every run
C28_SummaryAgreesWithStore == []C28_Agrees

\* of two urls one was stored and the other skipped by the exists check
C28_Witness ==
    /\ pc = "done"
    /\ Len(catalog) = 2
    /\ summary.successful = 1
    /\ Cardinality(CompletedWrites) = 1
    /\ \E k \in DOMAIN catalog :
          /\ ReturnedWith("exists", catalog[k], Returned("True"))
          /\ ~Called("add", catalog[k])
    /\ store = Range(catalog)

(***************************************************************************)
(* C30: if get_api_key raises when fetch_metrics is called, the call fails *)
(* with that error before the retry loop starts, with zero HTTP requests   *)
(* and zero sleeps, and the fetch of that url is not tried again.          *)
(***************************************************************************)
C30_Step ==
    LET n == Len(calls')
    IN  (/\ n = Len(calls) + 1
         /\ calls'[n][1] = "fetch"
         /\ api_key \in {NoKey, "", "your_api_key_here"}) =>
            /\ fpc' = "raised"
            /\ fetch_error' = ValueError
            /\ requests' = 0
            /\ sleeps' = <<>>
            /\ attempt' = 0
            /\ returns' = Append(returns, <<"fetch", calls'[n][2], ValueError>>)

C30_NotRetried ==
    /\ \A i \in DOMAIN returns :
          (returns[i][1] = "fetch" /\ returns[i][3] = ValueError) =>
             CallCount("fetch", returns[i][2]) = 1
    /\ (fpc = "raised" /\ fetch_error = ValueError) => (requests = 0 /\ sleeps = <<>>)

C30_CredentialFailure == []C30_NotRetried /\ [][C30_Step]_vars

\* a client allowed three attempts failed on the empty key without a request
C30_Witness ==
    /\ api_key = ""
    /\ max_retries = 2
    /\ fpc = "raised"
    /\ fetch_error = ValueError
    /\ requests = 0
    /\ sleeps = <<>>
    /\ returns[Len(returns)][1] = "fetch"
    /\ returns[Len(returns)][3] = ValueError

(***************************************************************************)
(* C29: with max_retries >= 0 and collaborators that always return or      *)
(* raise, every fetch_metrics call returns or raises after at most         *)
(* max_retries + 1 requests and at most max_retries sleeps, and every      *)
(* execute run whose catalog read succeeded returns its summary after      *)
(* processing each url of the catalog exactly once.                        *)
(***************************************************************************)
C29_Bounds ==
    /\ requests <= max_retries + 1
    /\ Len(sleeps) <= max_retries
    /\ pc = "done" =>
          /\ summary # NoSummary
          /\ Counted = Len(catalog)
          /\ \A k \in DOMAIN catalog : CallCount("exists", catalog[k]) = 1

C29_Termination ==
    /\ []C29_Bounds
    /\ (fpc \in {"request", "backoff"}) ~> (fpc \in {"returned", "raised"})
    /\ (pc = "loop") ~> (pc = "done")
    /\ (pc = "start" /\ job \in {"direct", "execute"}) ~> (pc \in {"done", "raised"})

\* a run over two urls has returned after a fetch that used all its attempts
C29_Witness ==
    /\ pc = "done"
    /\ Len(catalog) = 2
    /\ max_retries = 2
    /\ Counted = 2
    /\ \E k \in DOMAIN catalog : ReturnedWith("fetch", catalog[k], ConnectionError)

====
